---- MODULE Spec2Model ----
(***************************************************************************)
(* The VGA text-mode writer of rustos (src/src/vga_buffer.rs) and the      *)
(* panic handler of the kernel binary (src/src/main.rs).                   *)
(*                                                                         *)
(* The frame buffer keeps its real geometry (25 rows of 80 cells); a cell  *)
(* is a ScreenChar record, a byte is a number in 0..255 and a string is a  *)
(* sequence of bytes.  An out-of-range index into `chars` is Rust's        *)
(* bounds-check panic: the operation stops there and the flow enters the   *)
(* panic handler.                                                          *)
(*                                                                         *)
(* Specifications:                                                         *)
(*   SpecWriter   one flow calling the Writer's operations                 *)
(*   SpecPrintln  one flow calling println! with printable lines only      *)
(*   SpecScroll   a run of newline-triggered scrolls                       *)
(*   Spec         concurrent flows, lazy WRITER, its lock, panic handler   *)
(*   FairSpec     Spec, every flow that can take a step taking one         *)
(*   SpecColor    ColorMode::new over every pair of colors                 *)
(*   SpecIrq      the program and interrupt handlers calling println!      *)
(*   FairIrq      SpecIrq, the processor executing the flow on top         *)
(*   SpecTest     the should_panic test binary (src/tests/should_panic.rs) *)
(***************************************************************************)
EXTENDS Integers, Sequences, FiniteSets, TLC

VARIABLES
    chars,          \* Buffer.chars: the cells at 0xb8000, [row][col]
    col_position,   \* Writer.col_position
    color_mode,     \* Writer.color_mode
    last,           \* history: the last Writer operation and what it did
    ops,            \* history: number of operations performed so far
    snap,           \* history: the cells when the current run of newlines began
    k,              \* history: length of the current run of newline scrolls
    once,           \* state of the lazy_static cell holding WRITER
    inits,          \* history: how many times the initialiser of WRITER ran
    lock,           \* spin::Mutex of WRITER: the flow holding it, or NoFlow
    pc,             \* where each flow of control is
    call,           \* the formatted-output call each flow is in
    inpanic,        \* flows that are inside the panic handler
    test            \* the should_panic test binary: where it is, what it sent

sysvars == <<once, inits, lock, pc, call, inpanic, test>>
vars == <<chars, col_position, color_mode, last, ops, snap, k, sysvars>>

----------------------------------------------------------------------------
(* Program constants *)

BUFFER_HEIGHT == 25
BUFFER_WIDTH == 80

BLACK == 0
YELLOW == 14

NEWLINE == 10
SPACE == 32
TILDE == 126
QUESTION_MARK == 63

Rows == 0 .. (BUFFER_HEIGHT - 1)
Cols == 0 .. (BUFFER_WIDTH - 1)
Byte == 0 .. 255

----------------------------------------------------------------------------
(* Bounds of the model *)

MaxOps == 2          \* operations in one run of the sequential Writer
MaxPrintlns == 4     \* println! calls in one run of println! calls only
MaxBoot == 1         \* boot-time contents of the video memory: 0 .. MaxBoot
NumFlows == 2        \* concurrent flows of control calling print!/println!
MaxCalls == 3        \* print!/println! calls and faults of the program in one run
MaxScrolls == 26     \* longest run of newline scrolls (BUFFER_HEIGHT + 1)
MaxOperand == 1      \* operands of the assert_eq! of a test: 0 .. MaxOperand

----------------------------------------------------------------------------
(* u8 arithmetic *)

RECURSIVE BitOr(_, _)
BitOr(a, b) ==
    IF a = 0 THEN b
    ELSE IF b = 0 THEN a
    ELSE (IF (a % 2 = 1) \/ (b % 2 = 1) THEN 1 ELSE 0)
         + 2 * BitOr(a \div 2, b \div 2)

Shl4(x) == (x * 16) % 256

\* the discriminants of enum Color: BLACK = 0 .. WHITE = 15
Color == 0 .. 15

\* ColorMode::new with the two nibbles exchanged: foreground << 4 | background
ColorMode_new_swapped(foreground, background) ==
    BitOr(Shl4(foreground), background)

ColorMode_new(foreground, background) == BitOr(Shl4(background), foreground)

ScreenChar(byte, mode) == [ascii_character |-> byte, color_mode |-> mode]

----------------------------------------------------------------------------
(* The Writer as a value: the fields of the struct, the buffer it points   *)
(* to, and the instrumentation of one operation.                           *)

Writer(col, mode, buf) ==
    [col_position |-> col, color_mode |-> mode, chars |-> buf,
     panicked |-> FALSE,    \* an index was out of bounds: the flow panicked
     fwd |-> << >>,         \* bytes passed to write_byte, in order
     stores |-> 0,          \* character stores done by write_byte (line 114)
     scrolls |-> 0,         \* calls of new_line
     line |-> << >>,        \* bytes stored since the last new_line, in order
     scrolled |-> FALSE]    \* new_line has been called at least once

InBounds(row, col) == row \in Rows /\ col \in Cols

\* sequencing: v is computed once and handed, as a value, to what follows
Then(v, F(_)) == CHOOSE r \in {F(x) : x \in {v}} : TRUE

\* clear_row with a blank of its own colors (BLACK on BLACK) instead of the
\* Writer's color_mode
clear_row_black(w, row) ==
    LET blank_char == ScreenChar(SPACE, ColorMode_new(BLACK, BLACK))
    IN  IF row \notin Rows
        THEN [w EXCEPT !.panicked = TRUE]
        ELSE [w EXCEPT !.chars[row] = [col \in Cols |-> blank_char]]

\* clear_row with the column loop ending one column early
clear_row_short(w, row) ==
    LET blank_char == ScreenChar(SPACE, w.color_mode)
    IN  IF row \notin Rows
        THEN [w EXCEPT !.panicked = TRUE]
        ELSE [w EXCEPT !.chars[row] =
                 [col \in Cols |-> IF col < BUFFER_WIDTH - 1
                                   THEN blank_char
                                   ELSE w.chars[row][col]]]

clear_row(w, row) ==
    LET blank_char == ScreenChar(SPACE, w.color_mode)
    IN  IF row \notin Rows
        THEN [w EXCEPT !.panicked = TRUE]
        ELSE [w EXCEPT !.chars[row] = [col \in Cols |-> blank_char]]

\* copy_rows with the loop ending one row early: for row in 1..BUFFER_HEIGHT-1
RECURSIVE copy_rows_short(_, _)
copy_rows_short(buf, row) ==
    IF row >= BUFFER_HEIGHT - 1
    THEN buf
    ELSE Then([buf EXCEPT ![row - 1] = [col \in Cols |-> buf[row][col]]],
              LAMBDA copied : copy_rows_short(copied, row + 1))

\* the row loop of new_line: row `row` is copied, cell by cell, onto row - 1
RECURSIVE copy_rows(_, _)
copy_rows(buf, row) ==
    IF row >= BUFFER_HEIGHT
    THEN buf
    ELSE Then([buf EXCEPT ![row - 1] = [col \in Cols |-> buf[row][col]]],
              LAMBDA copied : copy_rows(copied, row + 1))

\* new_line without the row loop: the last row is cleared, nothing moves up
new_line_nocopy(w) ==
    Then(clear_row(w, BUFFER_HEIGHT - 1),
         LAMBDA cleared :
            [cleared EXCEPT !.col_position = 0, !.scrolls = @ + 1,
                                    !.line = << >>, !.scrolled = TRUE])

\* new_line without its last statement: col_position is left where it was
new_line_noreset(w) ==
    Then([w EXCEPT !.chars = copy_rows(w.chars, 1)],
         LAMBDA copied :
            Then(clear_row(copied, BUFFER_HEIGHT - 1),
                 LAMBDA cleared :
                    [cleared EXCEPT !.scrolls = @ + 1,
                                    !.line = << >>, !.scrolled = TRUE]))

new_line(w) ==
    Then([w EXCEPT !.chars = copy_rows(w.chars, 1)],
         LAMBDA copied :
            Then(clear_row(copied, BUFFER_HEIGHT - 1),
                 LAMBDA cleared :
                    [cleared EXCEPT !.col_position = 0, !.scrolls = @ + 1,
                                    !.line = << >>, !.scrolled = TRUE]))

\* write_byte with neither the wrap test nor a checked index: the store
\* goes wherever col_position points and col_position keeps growing
write_byte_unchecked(w0, byte) ==
    Then([w0 EXCEPT !.fwd = Append(@, byte)],
         LAMBDA w :
            IF byte = NEWLINE
            THEN new_line(w)
            ELSE LET row == BUFFER_HEIGHT - 1
                     col == w.col_position
                 IN  [w EXCEPT
                        !.chars = IF InBounds(row, col)
                                  THEN [@ EXCEPT ![row][col] =
                                            ScreenChar(byte, w.color_mode)]
                                  ELSE @,
                        !.stores = @ + 1,
                        !.line = Append(@, byte),
                        !.col_position = @ + 1])

\* write_byte with the character stored one column to the right of
\* col_position
write_byte_shifted(w0, byte) ==
    Then([w0 EXCEPT !.fwd = Append(@, byte)],
         LAMBDA w :
            IF byte = NEWLINE
            THEN new_line(w)
            ELSE LET row == BUFFER_HEIGHT - 1
                     col == w.col_position + 1
                     mode == w.color_mode
                 IN  Then(IF w.col_position >= BUFFER_WIDTH THEN new_line(w) ELSE w,
                          LAMBDA w1 :
                             IF ~InBounds(row, col)
                             THEN [w1 EXCEPT !.panicked = TRUE]
                             ELSE [w1 EXCEPT
                                      !.chars[row][col] = ScreenChar(byte, mode),
                                      !.stores = @ + 1,
                                      !.line = Append(@, byte),
                                      !.col_position = @ + 1]))

write_byte(w0, byte) ==
    Then([w0 EXCEPT !.fwd = Append(@, byte)],
         LAMBDA w :
            IF byte = NEWLINE
            THEN new_line(w)
            ELSE LET row == BUFFER_HEIGHT - 1
                     col == w.col_position
                     mode == w.color_mode
                 IN  Then(IF w.col_position >= BUFFER_WIDTH THEN new_line(w) ELSE w,
                          LAMBDA w1 :
                             IF ~InBounds(row, col)
                             THEN [w1 EXCEPT !.panicked = TRUE]
                             ELSE [w1 EXCEPT
                                      !.chars[row][col] = ScreenChar(byte, mode),
                                      !.stores = @ + 1,
                                      !.line = Append(@, byte),
                                      !.col_position = @ + 1]))

Substitute(byte) ==
    IF (byte >= SPACE /\ byte <= TILDE) \/ byte = NEWLINE
    THEN byte
    ELSE QUESTION_MARK

\* the byte loop of write_string over the bytes lo .. hi of s, in order;
\* the range is halved to keep the evaluation shallow, and the loop ends
\* where a byte panics
RECURSIVE write_bytes(_, _, _, _)
write_bytes(w, s, lo, hi) ==
    IF lo > hi \/ w.panicked
    THEN w
    ELSE IF lo = hi
    THEN write_byte(w, Substitute(s[lo]))
    ELSE Then(write_bytes(w, s, lo, (lo + hi) \div 2),
              LAMBDA w1 : write_bytes(w1, s, (lo + hi) \div 2 + 1, hi))

write_string(w, s) == write_bytes(w, s, 1, Len(s))

----------------------------------------------------------------------------
(* Inputs *)

Fill(n, byte) == [i \in 1 .. n |-> byte]

\* "some test string that fits on a single line" (test_println_output)
TestString ==
    <<115, 111, 109, 101, 32, 116, 101, 115, 116, 32, 115, 116, 114, 105, 110,
      103, 32, 116, 104, 97, 116, 32, 102, 105, 116, 115, 32, 111, 110, 32, 97,
      32, 115, 105, 110, 103, 108, 101, 32, 108, 105, 110, 101>>

\* bytes handed to write_byte: newline, printable, control, DEL, high
ByteInputs == {NEWLINE, 65, 1, 127, 200}

\* printable, newline-free lines of at most BUFFER_WIDTH bytes
LineInputs ==
    {<< >>, <<99, 100>>, TestString, Fill(BUFFER_WIDTH - 1, 119),
     Fill(BUFFER_WIDTH, 120)}

\* strings handed to write_string
StrInputs ==
    LineInputs \cup
    {<<65, 66>>, <<65, NEWLINE, 66>>, <<1, 72, 127, 200, 126, 32>>,
     Fill(BUFFER_WIDTH + 1, 121), Fill(BUFFER_WIDTH + 2, 122)}

\* What the firmware left in the video memory before the Writer exists:
\* every row different, attribute light gray on a colour that depends on p.
Boot(p) ==
    [row \in Rows |-> [col \in Cols |->
        ScreenChar(33 + ((7 * row + col + p) % 90), ColorMode_new(7, p % 8))]]

----------------------------------------------------------------------------
(* The sequential Writer: one flow of control calling its operations.      *)

NoOp ==
    [op |-> "none", arg |-> << >>, col0 |-> 0, fwd |-> << >>, stores |-> 0,
     scrolls |-> 0, panicked |-> FALSE, line |-> << >>, scrolled |-> FALSE]

Flows == 1 .. NumFlows
NoFlow == 0

\* the should_panic test binary before it is started
NoTest ==
    [pc |-> "off", left |-> 0, right |-> 0, panicked |-> FALSE,
     tx |-> << >>,       \* bytes of the current serial_print! still to send
     serial |-> << >>,   \* bytes sent to the serial port so far, in order
     exits |-> << >>]    \* exit codes signalled to the emulator, in order
NoCall == [pieces |-> << >>, text |-> << >>, start |-> 0]

\* the state right after WRITER was constructed, no flow inside a call
InitWriter ==
    /\ chars \in {Boot(p) : p \in 0 .. MaxBoot}
    /\ col_position = 0
    /\ color_mode = ColorMode_new(YELLOW, BLACK)
    /\ last = NoOp
    /\ ops = 0
    /\ snap = << >>
    /\ k = 0
    /\ once = "COMPLETE"
    /\ inits = 1
    /\ lock = NoFlow
    /\ pc = [c \in Flows |-> "idle"]
    /\ call = [c \in Flows |-> NoCall]
    /\ inpanic = [c \in Flows |-> FALSE]
    /\ test = NoTest

\* the Writer as it stands, with the history of its active line
Self ==
    [Writer(col_position, color_mode, chars) EXCEPT
        !.line = last.line, !.scrolled = last.scrolled]

\* the Writer after an operation, and the record of that operation
Commit(name, arg, w) ==
    /\ chars' = w.chars
    /\ col_position' = w.col_position
    /\ color_mode' = w.color_mode
    /\ last' = [op |-> name, arg |-> arg, col0 |-> col_position, fwd |-> w.fwd,
                stores |-> w.stores, scrolls |-> w.scrolls,
                panicked |-> w.panicked, line |-> w.line,
                scrolled |-> w.scrolled]
    /\ ops' = ops + 1
    /\ UNCHANGED sysvars

\* a flow that panicked is in the panic handler and calls nothing more
CanCall == ops < MaxOps /\ ~last.panicked

WriteByteOp ==
    /\ CanCall
    /\ \E byte \in ByteInputs : Commit("write_byte", <<byte>>, write_byte(Self, byte))
    /\ UNCHANGED <<snap, k>>

WriteStringOp ==
    /\ CanCall
    /\ \E s \in StrInputs : Commit("write_string", s, write_string(Self, s))
    /\ UNCHANGED <<snap, k>>

NewLineOp ==
    /\ CanCall
    /\ Commit("new_line", << >>, new_line(Self))
    /\ UNCHANGED <<snap, k>>

\* fmt::Write::write_fmt over the pieces of a format: one write_str per
\* non-empty piece, stopping where a piece panics
RECURSIVE write_fmt(_, _)
write_fmt(w, pieces) ==
    IF pieces = << >> \/ w.panicked
    THEN w
    ELSE Then(write_string(w, Head(pieces)),
              LAMBDA w1 : write_fmt(w1, Tail(pieces)))

\* print!("{}", s) renders s; println!("{}", s) is print!("{}\n", ...)
print_args(s) == <<s>>
\* println! with the newline after the line replaced by one before it
println_args_leading(s) == << <<NEWLINE>>, s>>
println_args(s) == <<s, <<NEWLINE>> >>

PrintOp ==
    /\ CanCall
    /\ \E s \in StrInputs : Commit("print", s, write_fmt(Self, print_args(s)))
    /\ UNCHANGED <<snap, k>>

PrintlnOp ==
    /\ CanCall
    /\ \E s \in StrInputs : Commit("println", s, write_fmt(Self, println_args(s)))
    /\ UNCHANGED <<snap, k>>

NextWriter ==
    \/ WriteByteOp
    \/ WriteStringOp
    \/ NewLineOp
    \/ PrintOp
    \/ PrintlnOp

SpecWriter == InitWriter /\ [][NextWriter]_vars

----------------------------------------------------------------------------
(* A run made of println! calls only, each of one printable line           *)
(* (test_println_single, test_println_many).                               *)

PrintlnLine ==
    /\ ops < MaxPrintlns
    /\ ~last.panicked
    /\ \E s \in LineInputs : Commit("println", s, write_fmt(Self, println_args(s)))
    /\ UNCHANGED <<snap, k>>

NextPrintln == PrintlnLine

SpecPrintln == InitWriter /\ [][NextPrintln]_vars

----------------------------------------------------------------------------
(* A run of consecutive newline-triggered scrolls, from the boot contents  *)
(* or from what one write_string left.                                     *)

Prefill ==
    /\ ops = 0
    /\ \E s \in StrInputs : Commit("write_string", s, write_string(Self, s))
    /\ UNCHANGED <<snap, k>>

NewlineScroll ==
    /\ ~last.panicked
    /\ k < MaxScrolls
    /\ Commit("write_byte", <<NEWLINE>>, write_byte(Self, NEWLINE))
    /\ snap' = IF k = 0 THEN chars ELSE snap
    /\ k' = k + 1

NextScroll ==
    \/ Prefill
    \/ NewlineScroll

SpecScroll == InitWriter /\ [][NextScroll]_vars

----------------------------------------------------------------------------
(* ColorMode::new over every pair of colors: a Writer built as WRITER is,  *)
(* with the pair (foreground, background) in place of (YELLOW, BLACK).     *)

NewColorMode ==
    \E foreground \in Color, background \in Color :
        /\ color_mode' = ColorMode_new(foreground, background)
        /\ col_position' = 0
        /\ last' = [NoOp EXCEPT !.op = "ColorMode::new",
                                !.arg = <<foreground, background>>]
        /\ UNCHANGED <<chars, ops, snap, k, sysvars>>

NextColor == NewColorMode

SpecColor == InitWriter /\ [][NextColor]_vars

----------------------------------------------------------------------------
(* The kernel: flows of control issuing print!/println! through the global *)
(* WRITER (lazy_static + spin::Mutex), and the panic handler of main.rs.   *)
(* One step of a flow inside _print is one write_str of write_fmt.         *)

\* the texts the program prints: printable, newline-free
Texts == {<<99, 100>>, Fill(BUFFER_WIDTH - 1, 119)}

\* what the Display of a PanicInfo renders: "panic"
PanicText == <<112, 97, 110, 105, 99>>

RECURSIVE Flatten(_)
Flatten(pieces) ==
    IF pieces = << >> THEN << >> ELSE Head(pieces) \o Flatten(Tail(pieces))

NewCall(pieces) == [pieces |-> pieces, text |-> Flatten(pieces), start |-> 0]

Init ==
    /\ chars = Boot(0)
    /\ col_position = 0        \* the Writer is not constructed yet: no flow
    /\ color_mode = 0          \* reads these two before Construct sets them
    /\ last = NoOp
    /\ ops = 0
    /\ snap = << >>
    /\ k = 0
    /\ once = "INCOMPLETE"
    /\ inits = 0
    /\ lock = NoFlow
    /\ pc = [c \in Flows |-> "idle"]
    /\ call = [c \in Flows |-> NoCall]
    /\ inpanic = [c \in Flows |-> FALSE]
    /\ test = NoTest

\* print!("{}", s)
CallPrint(c) ==
    /\ pc[c] = "idle"
    /\ ops < MaxCalls
    /\ \E s \in Texts : call' = [call EXCEPT ![c] = NewCall(print_args(s))]
    /\ pc' = [pc EXCEPT ![c] = "deref"]
    /\ ops' = ops + 1
    /\ UNCHANGED <<chars, col_position, color_mode, last, snap, k, test,
                   once, inits, lock, inpanic>>

\* println!("{}", s)
CallPrintln(c) ==
    /\ pc[c] = "idle"
    /\ ops < MaxCalls
    /\ \E s \in Texts : call' = [call EXCEPT ![c] = NewCall(println_args(s))]
    /\ pc' = [pc EXCEPT ![c] = "deref"]
    /\ ops' = ops + 1
    /\ UNCHANGED <<chars, col_position, color_mode, last, snap, k, test,
                   once, inits, lock, inpanic>>

\* a fatal condition outside formatted output (a failed assertion)
Fault(c) ==
    /\ pc[c] = "idle"
    /\ ops < MaxCalls
    /\ pc' = [pc EXCEPT ![c] = "panic"]
    /\ ops' = ops + 1
    /\ UNCHANGED <<chars, col_position, color_mode, last, snap, k, test,
                   once, inits, lock, call, inpanic>>

\* a WRITER that is built again by every flow that dereferences it
Deref_rebuild(c) ==
    /\ pc[c] = "deref"
    /\ once # "RUNNING"
    /\ once' = "RUNNING"
    /\ pc' = [pc EXCEPT ![c] = "init"]
    /\ UNCHANGED <<chars, col_position, color_mode, last, ops, snap, k, test,
                   inits, lock, call, inpanic>>

\* WRITER is dereferenced: the first flow to come runs the initialiser,
\* a flow that finds it running waits, a later one gets the instance
Deref(c) ==
    /\ pc[c] = "deref"
    /\ \/ /\ once = "INCOMPLETE"
          /\ once' = "RUNNING"
          /\ pc' = [pc EXCEPT ![c] = "init"]
       \/ /\ once = "COMPLETE"
          /\ once' = once
          /\ pc' = [pc EXCEPT ![c] = "lock"]
    /\ UNCHANGED <<chars, col_position, color_mode, last, ops, snap, k, test,
                   inits, lock, call, inpanic>>

\* the initialiser: Mutex::new(Writer { col_position: 0, color_mode, buffer })
Construct(c) ==
    /\ pc[c] = "init"
    /\ col_position' = 0
    /\ color_mode' = ColorMode_new(YELLOW, BLACK)
    /\ lock' = NoFlow
    /\ inits' = inits + 1
    /\ once' = "COMPLETE"
    /\ pc' = [pc EXCEPT ![c] = "lock"]
    /\ UNCHANGED <<chars, last, ops, snap, k, call, inpanic, test>>

\* WRITER.lock(): spins until the mutex is free
Lock(c) ==
    /\ pc[c] = "lock"
    /\ lock = NoFlow
    /\ lock' = c
    /\ call' = [call EXCEPT ![c].start = col_position]
    /\ pc' = [pc EXCEPT ![c] = "write"]
    /\ UNCHANGED <<chars, col_position, color_mode, last, ops, snap, k, test,
                   once, inits, inpanic>>

\* one write_str of write_fmt, under the guard; an out-of-bounds index
\* panics with the guard alive
WriteStr(c) ==
    /\ pc[c] = "write"
    /\ call[c].pieces # << >>
    /\ \E w \in {write_string(Self, Head(call[c].pieces))} :
           /\ chars' = w.chars
           /\ col_position' = w.col_position
           /\ color_mode' = w.color_mode
           /\ last' = [op |-> "write_str", arg |-> Head(call[c].pieces),
                       col0 |-> col_position, fwd |-> w.fwd,
                       stores |-> w.stores, scrolls |-> w.scrolls,
                       panicked |-> w.panicked, line |-> w.line,
                       scrolled |-> w.scrolled]
           /\ IF w.panicked
              THEN /\ pc' = [pc EXCEPT ![c] = "panic"]
                   /\ call' = call
              ELSE /\ pc' = pc
                   /\ call' = [call EXCEPT ![c].pieces = Tail(@)]
    /\ UNCHANGED <<ops, snap, k, once, inits, lock, inpanic, test>>

\* write_fmt returned Ok: the guard is dropped at the end of the statement
\* and _print returns, to the caller or into the handler's loop {}
Unlock(c) ==
    /\ pc[c] = "write"
    /\ call[c].pieces = << >>
    /\ lock' = NoFlow
    /\ pc' = [pc EXCEPT ![c] = IF inpanic[c] THEN "halt" ELSE "idle"]
    /\ UNCHANGED <<chars, col_position, color_mode, last, ops, snap, k, test,
                   once, inits, call, inpanic>>

\* panic(info): println!("{}", info), then loop {}
Panic(c) ==
    /\ pc[c] = "panic"
    /\ inpanic' = [inpanic EXCEPT ![c] = TRUE]
    /\ call' = [call EXCEPT ![c] = NewCall(println_args(PanicText))]
    /\ pc' = [pc EXCEPT ![c] = "deref"]
    /\ UNCHANGED <<chars, col_position, color_mode, last, ops, snap, k, test,
                   once, inits, lock>>

\* the steps the processor takes for flow c once it is running
Run(c) ==
    \/ Deref(c)
    \/ Construct(c)
    \/ Lock(c)
    \/ WriteStr(c)
    \/ Unlock(c)
    \/ Panic(c)

Next ==
    \E c \in Flows :
        \/ CallPrint(c)
        \/ CallPrintln(c)
        \/ Fault(c)
        \/ Run(c)

Spec == Init /\ [][Next]_vars

\* every flow keeps executing: a flow that can take a step takes one
FairSpec == Spec /\ \A c \in Flows : WF_vars(Run(c))

----------------------------------------------------------------------------
(* Interrupts: flow 1 is the program, a flow d > 1 is an interrupt handler *)
(* that calls println!. A handler runs on top of the flows below it: they  *)
(* take no step until it has returned. _print masks no interrupt, so one   *)
(* may arrive at any point of a call.                                      *)

Preempted(c) == \E d \in Flows : d > c /\ pc[d] # "idle"

\* the flows the processor may execute next
Running == {c \in Flows : ~Preempted(c)}

IrqRun(c) ==
    \/ Deref(c)
    \/ Construct(c)
    \/ Lock(c)
    \/ WriteStr(c)
    \/ Unlock(c)

IrqNext ==
    \E c \in Running :
        \/ CallPrintln(c)
        \/ IrqRun(c)

SpecIrq == Init /\ [][IrqNext]_vars

\* the processor keeps executing the flow on top
FairIrq == SpecIrq /\ WF_vars(\E c \in Running : IrqRun(c))

----------------------------------------------------------------------------
(* The should_panic test binary (tests/should_panic.rs): _start calls the  *)
(* function under test, whose assert_eq! panics or not; the binary reports *)
(* on the serial port and through the exit device of the emulator. The    *)
(* function under test is should_fail with any pair of operands in place  *)
(* of (0, 1).                                                             *)

\* "should_panic::should_fail...\t"
TestName ==
    <<115, 104, 111, 117, 108, 100, 95, 112, 97, 110, 105, 99, 58, 58, 115,
      104, 111, 117, 108, 100, 95, 102, 97, 105, 108, 46, 46, 46, 9>>

\* "[OK]"
OkText ==
    <<91, 79, 75, 93>>

\* "[test did not panic]"
DidNotPanicText ==
    <<91, 116, 101, 115, 116, 32, 100, 105, 100, 32, 110, 111, 116, 32,
      112, 97, 110, 105, 99, 93>>

Operands == 0 .. MaxOperand

\* the two fixed status codes of the exit protocol
QemuExitCode == {"SUCCESS", "FAILED"}

\* serial_print!: the bytes of the text are queued for the serial port
serial_print(t, text) == [t EXCEPT !.tx = text]

\* serial_println!: serial_print! of the text and a newline
serial_println(t, text) == serial_print(t, Append(text, NEWLINE))

\* exit_qemu: the code is written to the exit device of the emulator
exit_qemu(t, code) == [t EXCEPT !.exits = Append(@, code)]

TestStep(t) ==
    /\ test' = t
    /\ UNCHANGED <<chars, col_position, color_mode, last, ops, snap, k,
                   once, inits, lock, pc, call, inpanic>>

\* the entry point is given control
TestStart ==
    /\ test.pc = "off"
    /\ \E left \in Operands, right \in Operands :
          TestStep([test EXCEPT !.pc = "should_fail",
                                !.left = left, !.right = right])

\* the serial port takes the next byte of the text being printed
SerialSend ==
    /\ test.tx # << >>
    /\ TestStep([test EXCEPT !.serial = Append(@, Head(test.tx)),
                             !.tx = Tail(@)])

\* should_fail: serial_print! of the test's name
ShouldFailPrint ==
    /\ test.pc = "should_fail"
    /\ TestStep([serial_print(test, TestName) EXCEPT !.pc = "assert_eq"])

\* should_fail: assert_eq!(left, right) panics, or should_fail returns
ShouldFailAssert ==
    /\ test.pc = "assert_eq"
    /\ test.tx = << >>
    /\ TestStep(IF test.left = test.right
                THEN [test EXCEPT !.pc = "returned"]
                ELSE [test EXCEPT !.pc = "panic", !.panicked = TRUE])

\* _start after should_fail returned: the report
StartReport ==
    /\ test.pc = "returned"
    /\ TestStep([serial_println(test, DidNotPanicText) EXCEPT !.pc = "failed"])

\* _start: exit_qemu(QemuExitCode::FAILED), then loop {}
StartExit ==
    /\ test.pc = "failed"
    /\ test.tx = << >>
    /\ TestStep([exit_qemu(test, "FAILED") EXCEPT !.pc = "loop"])

\* the panic handler: the report
PanicReport ==
    /\ test.pc = "panic"
    /\ TestStep([serial_println(test, OkText) EXCEPT !.pc = "ok"])

\* the panic handler with both outcomes reported as failures
PanicExit_failed ==
    /\ test.pc = "ok"
    /\ test.tx = << >>
    /\ TestStep([exit_qemu(test, "FAILED") EXCEPT !.pc = "loop"])

\* the panic handler: exit_qemu(QemuExitCode::SUCCESS), then loop {}
PanicExit ==
    /\ test.pc = "ok"
    /\ test.tx = << >>
    /\ TestStep([exit_qemu(test, "SUCCESS") EXCEPT !.pc = "loop"])

NextTest ==
    \/ TestStart
    \/ SerialSend
    \/ ShouldFailPrint
    \/ ShouldFailAssert
    \/ StartReport
    \/ StartExit
    \/ PanicReport
    \/ PanicExit

SpecTest == Init /\ [][NextTest]_vars

----------------------------------------------------------------------------
(* Properties *)

Printable(s) == \A i \in 1 .. Len(s) : s[i] >= 32 /\ s[i] <= 126

BlankRow(mode) == [col \in Cols |-> ScreenChar(32, mode)]

\* C1: from column 0, WIDTH printable characters and then one more scroll
\* once and put the overflowing character at column 0 of the new last row
\* (column becomes 1), row HEIGHT-2 holding the first WIDTH characters.
C1_WrapBeforeOverflow ==
    (/\ last.op = "write_string"
     /\ last.col0 = 0
     /\ Len(last.arg) = BUFFER_WIDTH + 1
     /\ Printable(last.arg))
    => (/\ ~last.panicked
        /\ last.scrolls = 1
        /\ col_position = 1
        /\ chars[BUFFER_HEIGHT - 1][0].ascii_character = last.arg[BUFFER_WIDTH + 1]
        /\ \A i \in Cols :
              chars[BUFFER_HEIGHT - 2][i].ascii_character = last.arg[i + 1])

\* C2: no write operation reaches an out-of-bounds cell access (a panic).
C2_NoOutOfBounds == ~last.panicked

\* C3: 0 <= col_position <= WIDTH after every operation.
C3_ColumnBound == col_position >= 0 /\ col_position <= BUFFER_WIDTH

C3_Witness ==
    /\ last.op \in {"write_byte", "write_string", "print"}
    /\ col_position = BUFFER_WIDTH

\* C6 as stated: a println!("{}", s) of a printable line s of at most WIDTH
\* characters, issued in any reachable state, leaves s left-aligned in row
\* HEIGHT-2.
C6_PrintlnPlacementAnyState ==
    (/\ last.op = "println"
     /\ Printable(last.arg)
     /\ Len(last.arg) <= BUFFER_WIDTH)
    => \A i \in 1 .. Len(last.arg) :
          chars[BUFFER_HEIGHT - 2][i - 1].ascii_character = last.arg[i]

\* C6 amended: the same, for a println! issued when col_position is 0; the
\* call then does not panic and scrolls once.
C6_PrintlnPlacement ==
    (/\ last.op = "println"
     /\ last.col0 = 0
     /\ Printable(last.arg)
     /\ Len(last.arg) <= BUFFER_WIDTH)
    => (/\ ~last.panicked
        /\ \A i \in 1 .. Len(last.arg) :
              chars[BUFFER_HEIGHT - 2][i - 1].ascii_character = last.arg[i])

C6_Witness ==
    /\ last.op = "println"
    /\ last.col0 = 0
    /\ ops = 2
    /\ last.arg = TestString
    /\ chars[BUFFER_HEIGHT - 2][Len(TestString) - 1].ascii_character = 101

\* C7: write_string forwards every input byte to write_byte in order,
\* printable bytes and newline unchanged and every other byte as '?', and
\* one cell is written per non-newline input byte.
C7_Forwarded(s) ==
    [i \in 1 .. Len(s) |->
        IF (s[i] >= 32 /\ s[i] <= 126) \/ s[i] = 10 THEN s[i] ELSE 63]

C7_FallbackSubstitution ==
    last.op = "write_string"
    => (/\ last.fwd = C7_Forwarded(last.arg)
        /\ last.stores = Cardinality({i \in 1 .. Len(last.arg) : last.arg[i] # 10}))

\* the text of flow c's call as it should stand on the display once all of
\* it is written: from the column where the call began, in the last row,
\* or in the row above when the text ends with a newline
Appears(c) ==
    LET text == call[c].text
        ends == text # << >> /\ text[Len(text)] = 10
        body == IF ends THEN SubSeq(text, 1, Len(text) - 1) ELSE text
        row == IF ends THEN BUFFER_HEIGHT - 2 ELSE BUFFER_HEIGHT - 1
    IN  /\ call[c].start + Len(body) <= BUFFER_WIDTH
        /\ \A i \in 1 .. Len(body) :
              chars[row][call[c].start + i - 1].ascii_character = body[i]

\* at most one flow is inside a Writer operation, and it holds the lock
LockExclusion ==
    /\ \A c, d \in Flows : (pc[c] = "write" /\ pc[d] = "write") => c = d
    /\ \A c \in Flows : pc[c] = "write" => lock = c

\* C4: concurrent print!/println! calls are serialised by the WRITER lock:
\* at most one flow is inside a Writer operation, and the rendered string
\* of every call appears contiguous, intact and in full.
C4_AtomicCalls ==
    /\ LockExclusion
    /\ \A c \in Flows :
          /\ (pc[c] = "write" /\ call[c].pieces = << >>) => Appears(c)
          /\ ~(pc[c] = "panic" /\ call[c].pieces # << >>)

\* C5: whenever the panic handler is invoked, the description is eventually
\* written through println! and the handler then loops forever.
C5_HandlerHalts == \A c \in Flows : (pc[c] = "panic") ~> (pc[c] = "halt")

\* C8: the initialiser of WRITER runs at most once, constructs the Writer
\* with col_position 0 and attribute 0x0E, and every flow past the
\* dereference works on that one instance.
C8_Singleton ==
    /\ inits <= 1
    /\ once = "COMPLETE" <=> inits = 1
    /\ inits = 1 => color_mode = 14
    /\ (inits = 1 /\ last.op = "none") => col_position = 0
    /\ \A c \in Flows : pc[c] \in {"lock", "write"} => once = "COMPLETE"

C8_Witness ==
    /\ inits = 1
    /\ \E c, d \in Flows :
          /\ c # d
          /\ pc[c] = "write" /\ call[c].start > 0
          /\ pc[d] = "lock"

\* C9: after k consecutive newline-triggered scrolls (k >= 1), row i holds
\* the original row i + k when i + k < HEIGHT and is blank otherwise.
C9_ScrollDiscards ==
    k >= 1
    => \A i \in Rows :
          chars[i] = IF i + k < BUFFER_HEIGHT THEN snap[i + k]
                                              ELSE BlankRow(color_mode)

C9_Witness ==
    /\ k = BUFFER_HEIGHT
    /\ \A i \in Rows : chars[i] = BlankRow(color_mode) /\ snap[i] # chars[i]

\* C10: in a run of println! calls of printable lines of at most WIDTH
\* characters no call panics, each scrolls exactly once and col_position
\* is 0 after each.
C10_PrintlnRun ==
    /\ ~last.panicked
    /\ col_position = 0
    /\ last.op = "println" => last.scrolls = 1

C10_Witness ==
    /\ ops >= 3
    /\ last.op = "println"
    /\ Len(last.arg) = BUFFER_WIDTH
    /\ chars[BUFFER_HEIGHT - 2] # chars[BUFFER_HEIGHT - 3]

----------------------------------------------------------------------------
(* ColorMode::new (SpecColor) *)

\* C11: ColorMode::new(f, b) is the 8-bit value b * 16 + f: its low four
\* bits decode to f, its high four bits to b, and no other pair of colors
\* gives the same byte.
C11_ColorRoundTrip ==
    last.op = "ColorMode::new" =>
        LET foreground == last.arg[1]
            background == last.arg[2]
        IN  /\ color_mode \in Byte
            /\ color_mode = background * 16 + foreground
            /\ color_mode % 16 = foreground
            /\ color_mode \div 16 = background
            /\ \A f \in Color, b \in Color :
                  ColorMode_new(f, b) = color_mode => <<f, b>> = last.arg

C11_Witness ==
    /\ last.op = "ColorMode::new"
    /\ last.arg = <<5, 10>>
    /\ color_mode = 165

----------------------------------------------------------------------------
(* The steps of the sequential Writer (SpecWriter) *)

\* C12: one new_line, from any state, leaves in row r - 1 what row r held
\* before it (1 <= r < HEIGHT), blanks every cell of row HEIGHT - 1 with the
\* current attribute, sets col_position to 0 and keeps the attribute.
C12_ScrollStep ==
    [][ (last'.op = "new_line" /\ ops' = ops + 1) =>
            /\ \A r \in 1 .. BUFFER_HEIGHT - 1 : chars'[r - 1] = chars[r]
            /\ chars'[BUFFER_HEIGHT - 1] = BlankRow(color_mode)
            /\ col_position' = 0
            /\ color_mode' = color_mode ]_vars

C12_Witness ==
    /\ last.op = "new_line"
    /\ last.col0 = BUFFER_WIDTH
    /\ last.scrolls = 1
    /\ col_position = 0
    /\ chars[BUFFER_HEIGHT - 2][BUFFER_WIDTH - 1].ascii_character = 120

\* C16: write_byte(b) with b other than the newline and col_position below
\* WIDTH changes exactly the cell (HEIGHT - 1, old col_position), to b with
\* the current attribute, and adds 1 to col_position; every other cell and
\* the attribute stay as they were and nothing scrolls.
C16_PlainWriteFrame ==
    [][ ( /\ last'.op = "write_byte"
          /\ ops' = ops + 1
          /\ last'.arg # <<NEWLINE>>
          /\ col_position < BUFFER_WIDTH ) =>
            /\ chars' = [chars EXCEPT ![BUFFER_HEIGHT - 1][col_position] =
                                        ScreenChar(last'.arg[1], color_mode)]
            /\ col_position' = col_position + 1
            /\ color_mode' = color_mode
            /\ last'.scrolls = 0
            /\ ~last'.panicked ]_vars

C16_Witness ==
    /\ last.op = "write_byte"
    /\ last.arg = <<200>>
    /\ last.col0 = BUFFER_WIDTH - 1
    /\ col_position = BUFFER_WIDTH
    /\ chars[BUFFER_HEIGHT - 1][BUFFER_WIDTH - 1].ascii_character = 200

\* C17: once the Writer has scrolled, the last row holds, below
\* col_position, exactly the bytes written since the last scroll, in order,
\* and from col_position on the blank cell (a space with the current
\* attribute).
C17_ActiveLine ==
    last.scrolled =>
        /\ Len(last.line) = col_position
        /\ \A col \in Cols :
              chars[BUFFER_HEIGHT - 1][col] =
                  IF col < col_position
                  THEN ScreenChar(last.line[col + 1], color_mode)
                  ELSE ScreenChar(SPACE, color_mode)

C17_Witness ==
    /\ last.scrolled
    /\ last.op = "print"
    /\ last.line = <<65, 66>>
    /\ col_position = 2
    /\ chars[BUFFER_HEIGHT - 1][2] = ScreenChar(SPACE, color_mode)

\* C18: color_mode is the one set at construction (YELLOW on BLACK, 0x0E)
\* and no operation changes it; every cell an operation changes either
\* carries that attribute (a character or a blank it wrote) or is a copy of
\* a cell that scrolling moved up its column, so any other attribute comes
\* from what the memory held before the Writer.
C18_ConstantAttribute ==
    [][ /\ color_mode = 14
        /\ color_mode' = color_mode
        /\ \A row \in Rows :
              \/ \E from \in row .. BUFFER_HEIGHT - 1 : chars'[row] = chars[from]
              \/ \A col \in Cols :
                    \/ chars'[row][col].color_mode = color_mode
                    \/ \E from \in row .. BUFFER_HEIGHT - 1 :
                          chars'[row][col] = chars[from][col] ]_vars

C18_Witness ==
    /\ last.op = "println"
    /\ last.arg = <<99, 100>>
    /\ last.scrolls = 1
    /\ chars[BUFFER_HEIGHT - 2][0] = ScreenChar(99, color_mode)
    /\ chars[BUFFER_HEIGHT - 2][2].color_mode # color_mode
    /\ chars[BUFFER_HEIGHT - 1][0] = ScreenChar(SPACE, color_mode)

----------------------------------------------------------------------------
(* Interrupt handlers that print (FairIrq) *)

\* C13: when an interrupt preempts a flow that holds the WRITER lock inside
\* a formatted-output call and the handler issues a formatted-output call
\* itself, the handler's call eventually returns and the interrupted call
\* eventually releases the lock: both complete, nothing deadlocks.
C13_InterruptReentry ==
    \A c \in Flows, d \in Flows :
        /\ (c < d /\ lock = c /\ pc[d] = "deref") ~> (pc[d] = "idle")
        /\ (c < d /\ lock = c /\ pc[d] = "deref") ~> (lock # c)

----------------------------------------------------------------------------
(* The WRITER lock over whole behaviours (FairSpec) *)

\* C14: every acquisition of the WRITER lock by _print is eventually
\* followed by its release, on every exit path of the call, the one through
\* a failed write and the failure handler included.
C14_LockReleased == \A c \in Flows : (lock = c) ~> (lock # c)

\* C15: every caller that starts a print!/println! call eventually acquires
\* the lock, writes, releases it and returns, whatever the other callers
\* do, when every flow keeps being scheduled.
C15_NoIndefiniteBlocking ==
    \A c \in Flows : (pc[c] = "deref" /\ ~inpanic[c]) ~> (pc[c] = "idle")

----------------------------------------------------------------------------
(* The should_panic test binary (SpecTest) *)

\* C19: the should_panic binary signals at most one exit status, and none
\* before its report is printed in full; once it has signalled one it is in
\* its final loop, the status is SUCCESS, after "[OK]", exactly when the
\* function under test panicked, and FAILED, after "[test did not panic]",
\* exactly when it returned.
C19_ShouldPanicOutcome ==
    /\ Len(test.exits) <= 1
    /\ test.pc = "loop" <=> Len(test.exits) = 1
    /\ test.pc = "loop" =>
          /\ test.exits[1] \in QemuExitCode
          /\ test.exits[1] = "SUCCESS" <=> test.panicked
          /\ test.exits[1] = "FAILED" <=> ~test.panicked
          /\ test.panicked <=> test.left # test.right
          /\ test.tx = << >>
          /\ test.serial =
                TestName \o (IF test.panicked THEN OkText ELSE DidNotPanicText)
                         \o <<NEWLINE>>

C19_Witness ==
    /\ test.pc = "loop"
    /\ test.left = 0
    /\ test.right = 1
    /\ test.exits = <<"SUCCESS">>

C19_WitnessReturned ==
    /\ test.pc = "loop"
    /\ test.left = test.right
    /\ test.exits = <<"FAILED">>

====
